---- MODULE Spec2Model ----
(***************************************************************************)
(* CryptoTableMaker (src/main.py): task_func collects an API key, a query  *)
(* string and a column selection, get_info fetches the listings snapshot   *)
(* (get_data), projects and relabels it (clean_data), filters it by the    *)
(* ids of the tickers (get_ids) or by a row count (head), and task_func    *)
(* emits an HTML table and two CSV files.                                  *)
(*                                                                         *)
(* Strings the code inspects character by character (the query string)     *)
(* are sequences of one-character strings.  A dataframe is a record        *)
(* [cols, index, rows]: column labels, row labels, and one sequence of     *)
(* cells per row, aligned with cols.                                       *)
(***************************************************************************)
EXTENDS Integers, Sequences, FiniteSets, TLC

\* ---------------------------------------------------------------- bounds

\* Longest listings snapshot the provider returns in the model (100 in
\* production: the provider's default limit, main.py line 22).
MaxRows == 3

\* How often the direct-call specification calls clean_data on one list.
MaxCalls == 2

\* ------------------------------------------------------------ environment

AllSessions == {"s1", "s2"}

\* The Session objects a run can hold: one per invocation, plus the place a
\* module-level client would occupy.
SessionObjects == AllSessions \cup {"shared"}

ApiKeys == {"keyA", "keyB", "expired"}

ValidKey(k) == k \in {"keyA", "keyB"}

TransportErrors == {"ConnectionError", "Timeout", "TooManyRedirects"}

\* Columns of a normalized listings record (a representative subset of the
\* provider's fields), in the provider's order.
RawCols == <<"id", "name", "symbol", "cmc_rank", "quote.USD.price",
             "quote.USD.market_cap">>

\* The value the provider reports for asset i in its k-th field; the id
\* field (k = 1) holds the asset's identifier itself.
FieldValue(i, k) == 10 * (k - 1) + i

\* The options of the checkbox: raw field names, each a key of
\* relabeling_map.
checkbox_config == <<"symbol", "quote.USD.price", "quote.USD.market_cap">>

\* What pywebio's checkbox returns: the chosen options, in option order.
Selection(S) ==
    LET F[i \in 0..Len(checkbox_config)] ==
            IF i = 0 THEN <<>>
            ELSE IF i \in S THEN Append(F[i - 1], checkbox_config[i])
                 ELSE F[i - 1]
    IN  F[Len(checkbox_config)]

AllSelections == { Selection(S) : S \in SUBSET (1..Len(checkbox_config)) }

\* A listings snapshot: the assets in rank order, each at most once, and at
\* least one (the provider's top list is never empty).
AllSnapshots ==
    { q \in UNION { [1..n -> 1..MaxRows] : n \in 1..MaxRows } :
        \A i, j \in 1..Len(q) : i # j => q[i] # q[j] }

\* The query strings a user types (required=True: never empty).
AllQueries ==
    { <<"0">>, <<"2">>, <<"5", "0", "0">>,
      <<"X">>, <<"X", ",", " ", "Y">>, <<"Z">>, <<"W", ",", "Y">>,
      <<" ", ",", " ">> }

\* The provider's symbol table: X is the ticker of two assets, Z of an asset
\* outside the listings, W of none.
AssetsOf(sym) ==
    CASE sym = <<"X">> -> <<1, 2>>
      [] sym = <<"Y">> -> <<3>>
      [] sym = <<"Z">> -> <<9>>
      [] OTHER -> <<>>

\* ------------------------------------------------------- string functions

Digits == {"0", "1", "2", "3", "4", "5", "6", "7", "8", "9"}

DigitVal(c) ==
    CASE c = "0" -> 0 [] c = "1" -> 1 [] c = "2" -> 2 [] c = "3" -> 3
      [] c = "4" -> 4 [] c = "5" -> 5 [] c = "6" -> 6 [] c = "7" -> 7
      [] c = "8" -> 8 [] c = "9" -> 9

\* str.isdigit(): non-empty and every character a digit.
isdigit(str) == Len(str) > 0 /\ \A i \in 1..Len(str) : str[i] \in Digits

\* int(str) of an all-digit string.
RECURSIVE int(_)
int(str) ==
    IF str = <<>> THEN 0
    ELSE 10 * int(SubSeq(str, 1, Len(str) - 1)) + DigitVal(str[Len(str)])

\* ticker_string.replace(' ', '')
is_not_space(c) == c # " "

strip_spaces(str) == SelectSeq(str, is_not_space)

\* The provider's reading of the symbol parameter: the comma-separated
\* tokens, empty ones included.
RECURSIVE Split(_)
Split(str) ==
    IF \A i \in 1..Len(str) : str[i] # ","
    THEN <<str>>
    ELSE LET k == CHOOSE i \in 1..Len(str) :
                     str[i] = "," /\ \A j \in 1..(i - 1) : str[j] # ","
         IN  <<SubSeq(str, 1, k - 1)>> \o Split(SubSeq(str, k + 1, Len(str)))

\* -------------------------------------------------------------- provider

\* The map endpoint's "data": one entry per asset of each requested symbol.
RECURSIVE MapEntries(_)
MapEntries(toks) ==
    IF toks = <<>> THEN <<>>
    ELSE LET ids == AssetsOf(Head(toks))
         IN  [i \in 1..Len(ids) |-> [id |-> ids[i], symbol |-> Head(toks)]]
             \o MapEntries(Tail(toks))

MapResponse(symbol) == MapEntries(Split(symbol))

\* ------------------------------------------------------------ dataframes

EmptyFrame == [cols |-> <<>>, index |-> <<>>, rows |-> <<>>]

\* pd.json_normalize(data['data']): one row per record under a RangeIndex;
\* the columns are the records' fields, so an empty list has none.
json_normalize(data) ==
    [cols  |-> IF data = <<>> THEN <<>> ELSE RawCols,
     index |-> [r \in 1..Len(data) |-> r - 1],
     rows  |-> [r \in 1..Len(data) |->
                  [k \in 1..Len(RawCols) |-> FieldValue(data[r], k)]]]

HasCol(frame, c) == \E k \in 1..Len(frame.cols) : frame.cols[k] = c

ColPos(frame, c) == CHOOSE k \in 1..Len(frame.cols) :
                        frame.cols[k] = c /\ \A j \in 1..(k - 1) : frame.cols[j] # c

\* dataframe[columns] with a list of labels: those columns, in the list's
\* order, same rows and row labels.
select_columns(frame, columns) ==
    [cols  |-> columns,
     index |-> frame.index,
     rows  |-> [r \in 1..Len(frame.rows) |->
                  [j \in 1..Len(columns) |-> frame.rows[r][ColPos(frame, columns[j])]]]]

relabeling_map(c) ==
    CASE c = "symbol" -> "ticker"
      [] c = "num_market_pairs" -> "market_pairs"
      [] c = "circulating_supply" -> "circ_supply"
      [] c = "cmc_rank" -> "CMC_rank"
      [] c = "quote.USD.price" -> "price_USD"
      [] c = "quote.USD.volume_24h" -> "24h_volume"
      [] c = "quote.USD.volume_change_24h" -> "24h_volume_change"
      [] c = "quote.USD.percent_change_1h" -> "1h%"
      [] c = "quote.USD.percent_change_24h" -> "24h%"
      [] c = "quote.USD.percent_change_7d" -> "7d%"
      [] c = "quote.USD.percent_change_30d" -> "30d%"
      [] c = "quote.USD.percent_change_60d" -> "60d%"
      [] c = "quote.USD.percent_change_90d" -> "90d%"
      [] c = "quote.USD.market_cap" -> "market_cap"
      [] c = "quote.USD.market_cap_dominance" -> "market_cap_dominance"
      [] c = "quote.USD.fully_diluted_market_cap" -> "fully_diluted_market_cap"
      [] c = "quote.USD.last_updated" -> "last_updated"
      [] OTHER -> c

\* A faulty variant of rename: the labels are left raw.
rename_skipped(frame) == frame

\* DataFrame.rename(columns=relabeling_map): a new frame, labels rewritten.
rename(frame) == [frame EXCEPT !.cols = [j \in 1..Len(frame.cols) |->
                                             relabeling_map(frame.cols[j])]]

\* A faulty variant of insert_id: columns.append('id').
insert_id_at_end(columns) == Append(columns, "id")

\* columns.insert(0, 'id')
insert_id(columns) == <<"id">> \o columns

\* clean_data(dataframe, columns).  The call's effect on its two arguments
\* is part of the result: dataframe and columns are the objects after the
\* call, ret is the frame returned; raised says whether dataframe[columns]
\* raised KeyError (a label that is no column), in which case nothing is
\* returned.
clean_data(dataframe, columns) ==
    LET cols2 == insert_id(columns)
        ok    == \A j \in 1..Len(cols2) : HasCol(dataframe, cols2[j])
    IN  [dataframe |-> dataframe,
         columns   |-> cols2,
         raised    |-> ~ok,
         ret       |-> IF ok THEN rename(select_columns(dataframe, cols2))
                       ELSE EmptyFrame]

TakeRows(frame, pos) ==
    [cols  |-> frame.cols,
     index |-> [i \in 1..Len(pos) |-> frame.index[pos[i]]],
     rows  |-> [i \in 1..Len(pos) |-> frame.rows[pos[i]]]]

\* df_cleaned[df_cleaned['id'].isin(id_list)]
isin_filter(frame, ids) ==
    LET k == ColPos(frame, "id")
        mask == [r \in 1..Len(frame.rows) |->
                    \E i \in 1..Len(ids) : ids[i] = frame.rows[r][k]]
        kept[r \in 0..Len(frame.rows)] ==
            IF r = 0 THEN <<>>
            ELSE IF mask[r] THEN Append(kept[r - 1], r) ELSE kept[r - 1]
    IN  TakeRows(frame, kept[Len(frame.rows)])

\* A faulty variant of head: one row too many.
head_one_more(frame, n) ==
    TakeRows(frame, [i \in 1..(IF n + 1 < Len(frame.rows) THEN n + 1
                               ELSE Len(frame.rows)) |-> i])

\* DataFrame.head(n), n >= 0: the first n rows, all of them when n exceeds
\* the row count.
head(frame, n) ==
    TakeRows(frame, [i \in 1..(IF n < Len(frame.rows) THEN n
                               ELSE Len(frame.rows)) |-> i])

\* A faulty variant of cmc_ids: only the first entry's id is kept.
cmc_ids_first_only(entries) ==
    IF entries = <<>> THEN <<>> ELSE <<entries[1].id>>

\* The loop of get_ids: the id of every entry of id_map['data'], in order.
cmc_ids(entries) == [i \in 1..Len(entries) |-> entries[i].id]

\* A faulty variant of is_str: the int branch is never taken.
is_str_always(t) == TRUE

\* type(ticker_string) is str
is_str(t) == t.type = "str"

\* The filter step of get_info (lines 129-133) on the relabeled frame; as
\* for clean_data, the argument after the step is part of the result.
filter_step(frame, t, ids) ==
    [frame |-> frame,
     ret   |-> IF is_str(t) THEN isin_filter(frame, ids) ELSE head(frame, t.n)]

\* A faulty variant of unfiltered: get_info returns df_cleaned first.
unfiltered_is_cleaned(fetched, cleaned) == cleaned

\* The first element of get_info's return value.
unfiltered(fetched, cleaned) == fetched

\* DataFrame.to_html(index=False): a header row of the column labels and
\* one row of cells per record; the row labels are left out.
to_html(frame) == [header |-> frame.cols, body |-> frame.rows]

\* DataFrame.to_csv(index=...): a header line and one line per row; with
\* the index, every line starts with the row label, under an empty header
\* cell.
to_csv(frame, with_index) ==
    IF with_index
    THEN [header |-> <<"">> \o frame.cols,
          lines  |-> [r \in 1..Len(frame.rows) |-> <<frame.index[r]>> \o frame.rows[r]]]
    ELSE [header |-> frame.cols, lines |-> frame.rows]

\* What the page shows: put_markdown / put_text / put_html / put_file.
Shown(kind, name, header, lines) ==
    [kind |-> kind, name |-> name, header |-> header, lines |-> lines]

put_markdown(text) == Shown("markdown", text, <<>>, <<>>)

put_text(text) == Shown("text", text, <<>>, <<>>)

put_html(html) == Shown("html", "", html.header, html.body)

put_file(name, csv) == Shown("file", name, csv.header, csv.lines)

\* Lines 163-169 of task_func: what it puts on the page after get_info.
emitted(fetched, info, html) ==
    << put_html(html),
       put_text("Download current, filtered results as a .csv file:"),
       put_file("CMC_filtered.csv", to_csv(info, FALSE)),
       put_text("Download top 100 current, unfiltered CoinMarketCap listings as a .csv file: "),
       put_file("CMC_unfiltered.csv", to_csv(fetched, TRUE)) >>

\* ------------------------------------------------------------------ state

VARIABLES
    live,           \* the sessions running task_func
    pc,             \* each session's position in task_func / get_info
    api_key,        \* task_func: api_key
    ticker_string,  \* task_func: ticker_string (a str, or an int after line 156)
    column_ids,     \* task_func: column_ids, the list passed to get_info
    headers,        \* the headers of each Session object
    df,             \* get_info: df
    df_cleaned,     \* get_info: df_cleaned
    id_list,        \* get_info: id_list
    info_df,        \* get_info: info_df
    info_html,      \* get_info: info_html
    out,            \* what each session's page shows, in order
    stdout,         \* the server process's standard output
    exc,            \* the exception that ended a session ("none": none)
    inputs,         \* history: what the user of each session entered
    wire,           \* history: each session's requests and their responses
    trace,          \* history: the pipeline steps each session has taken
    cd_df,          \* direct calls: the dataframe argument
    cd_columns,     \* direct calls: the columns list argument
    cd_ret,         \* direct calls: the frame clean_data returned last
    cd_info,        \* direct calls: the frame the filter step returned last
    cd_calls,       \* direct calls: how often clean_data was called
    cd_filtered,    \* direct calls: whether the filter step has run
    cd_df0,         \* direct calls: the dataframe as first passed
    cd_columns0     \* direct calls: the columns list as first passed

session_vars == <<pc, api_key, ticker_string, column_ids, headers, df, df_cleaned,
                  id_list, info_df, info_html, out, stdout, exc, inputs, wire, trace>>

cd_vars == <<cd_df, cd_columns, cd_ret, cd_info, cd_calls, cd_filtered, cd_df0,
            cd_columns0>>

vars == <<live, session_vars, cd_vars>>

StrValue(chars) == [type |-> "str", chars |-> chars, n |-> 0]

IntValue(n) == [type |-> "int", chars |-> <<>>, n |-> n]

\* Lines 155-156: an all-digit query string becomes an int.
parse_query(q) == IF isdigit(q) THEN IntValue(int(q)) ELSE StrValue(q)

NoInputs == [api_key |-> "", query |-> <<>>, columns |-> <<>>]

\* With two sessions interleaving, each draws from fewer inputs.
KeyChoices == ApiKeys

QueryChoices ==
    IF live = AllSessions THEN { <<"2">>, <<"X", ",", " ", "Y">>, <<"Z">> }
    ELSE AllQueries

SelectionChoices ==
    IF live = AllSessions THEN { <<>>, <<"symbol", "quote.USD.price">> }
    ELSE AllSelections

SnapshotChoices ==
    IF live = AllSessions THEN { <<1, 2, 3>>, <<3, 1>>, <<2>> } ELSE AllSnapshots

SessionInit(running) ==
    /\ live = running
    /\ pc = [s \in AllSessions |-> IF s \in running THEN "start" ELSE "idle"]
    /\ api_key = [s \in AllSessions |-> ""]
    /\ ticker_string = [s \in AllSessions |-> StrValue(<<>>)]
    /\ column_ids = [s \in AllSessions |-> <<>>]
    /\ headers = [o \in SessionObjects |-> ""]
    /\ df = [s \in AllSessions |-> EmptyFrame]
    /\ df_cleaned = [s \in AllSessions |-> EmptyFrame]
    /\ id_list = [s \in AllSessions |-> <<>>]
    /\ info_df = [s \in AllSessions |-> EmptyFrame]
    /\ info_html = [s \in AllSessions |-> to_html(EmptyFrame)]
    /\ out = [s \in AllSessions |-> <<>>]
    /\ stdout = <<>>
    /\ exc = [s \in AllSessions |-> "none"]
    /\ inputs = [s \in AllSessions |-> NoInputs]
    /\ wire = [s \in AllSessions |-> <<>>]
    /\ trace = [s \in AllSessions |-> <<>>]

NoDirectCalls ==
    /\ cd_df = EmptyFrame
    /\ cd_columns = <<>>
    /\ cd_ret = EmptyFrame
    /\ cd_info = EmptyFrame
    /\ cd_calls = 0
    /\ cd_filtered = FALSE
    /\ cd_df0 = EmptyFrame
    /\ cd_columns0 = <<>>

\* One user on the page.
Init == SessionInit({"s1"}) /\ NoDirectCalls

\* Two users at once.
InitTwo == SessionInit(AllSessions) /\ NoDirectCalls

\* ------------------------------------------------------------- task_func

\* Lines 143-150: the two put_markdown calls and the API key input.
task_func_api_key(s) ==
    /\ pc[s] = "start"
    /\ \E k \in KeyChoices :
          /\ api_key' = [api_key EXCEPT ![s] = k]
          /\ inputs' = [inputs EXCEPT ![s].api_key = k]
    /\ out' = [out EXCEPT ![s] = @ \o <<put_markdown("# CryptoTableMaker"),
                                        put_markdown("A simple web app")>>]
    /\ pc' = [pc EXCEPT ![s] = "input_ticker"]
    /\ UNCHANGED <<live, ticker_string, column_ids, headers, df, df_cleaned, id_list,
                   info_df, info_html, stdout, exc, wire, trace, cd_vars>>

\* Lines 152-156: the query input, converted to an int when all digits.
task_func_ticker_string(s) ==
    /\ pc[s] = "input_ticker"
    /\ \E q \in QueryChoices :
          /\ ticker_string' = [ticker_string EXCEPT ![s] = parse_query(q)]
          /\ inputs' = [inputs EXCEPT ![s].query = q]
    /\ pc' = [pc EXCEPT ![s] = "checkbox"]
    /\ UNCHANGED <<live, api_key, column_ids, headers, df, df_cleaned, id_list,
                   info_df, info_html, out, stdout, exc, wire, trace, cd_vars>>

\* Lines 158-160: the checkbox over the configured columns.
task_func_column_ids(s) ==
    /\ pc[s] = "checkbox"
    /\ \E c \in SelectionChoices :
          /\ column_ids' = [column_ids EXCEPT ![s] = c]
          /\ inputs' = [inputs EXCEPT ![s].columns = c]
    /\ pc' = [pc EXCEPT ![s] = "get_data"]
    /\ UNCHANGED <<live, api_key, ticker_string, headers, df, df_cleaned, id_list,
                   info_df, info_html, out, stdout, exc, wire, trace, cd_vars>>

\* ------------------------------------------------------ get_data / get_ids

\* A faulty variant of NewSession: one module-level Session for every call.
NewSessionShared(s) == "shared"

\* session = Session(): the object one call of get_data or get_ids creates
\* and uses, a local of that call.
NewSession(s) == s

Request(endpoint, key, symbol, kind, listing, entries) ==
    [endpoint |-> endpoint, key |-> key, symbol |-> symbol, kind |-> kind,
     listing |-> listing, entries |-> entries]

\* Lines 19-32 of get_data: a new Session carrying the key in its headers.
get_data_session(s) ==
    /\ pc[s] = "get_data"
    /\ headers' = [headers EXCEPT ![NewSession(s)] = api_key[s]]
    /\ pc' = [pc EXCEPT ![s] = "get_data_request"]
    /\ UNCHANGED <<live, api_key, ticker_string, column_ids, df, df_cleaned, id_list,
                   info_df, info_html, out, stdout, exc, inputs, wire, trace, cd_vars>>

\* Lines 34-42 of get_data: the request, the handler, json_normalize.  A
\* transport error is caught and shown with put_text, and line 41 then reads
\* data, which was never bound: UnboundLocalError.  A provider error payload
\* has no 'data' key: KeyError.
get_data_request(s) ==
    /\ pc[s] = "get_data_request"
    /\ LET key == headers[NewSession(s)] IN
       \/ \E e \in TransportErrors :
             /\ wire' = [wire EXCEPT ![s] =
                            Append(@, Request("listings", key, <<>>, e, <<>>, <<>>))]
             /\ out' = [out EXCEPT ![s] = Append(@, put_text(e))]
             /\ exc' = [exc EXCEPT ![s] = "UnboundLocalError"]
             /\ pc' = [pc EXCEPT ![s] = "crashed"]
             /\ df' = df
       \/ /\ ~ValidKey(key)
          /\ wire' = [wire EXCEPT ![s] =
                         Append(@, Request("listings", key, <<>>, "error_payload", <<>>, <<>>))]
          /\ exc' = [exc EXCEPT ![s] = "KeyError"]
          /\ pc' = [pc EXCEPT ![s] = "crashed"]
          /\ UNCHANGED <<df, out>>
       \/ /\ ValidKey(key)
          /\ \E data \in SnapshotChoices :
                /\ wire' = [wire EXCEPT ![s] =
                               Append(@, Request("listings", key, <<>>, "ok", data, <<>>))]
                /\ df' = [df EXCEPT ![s] = json_normalize(data)]
          /\ pc' = [pc EXCEPT ![s] = "clean_data"]
          /\ UNCHANGED <<exc, out>>
    /\ trace' = [trace EXCEPT ![s] = Append(@, "listings_request")]
    /\ UNCHANGED <<live, api_key, ticker_string, column_ids, headers, df_cleaned,
                   id_list, info_df, info_html, stdout, inputs, cd_vars>>

\* Line 128 of get_info: df_cleaned = clean_data(df, columns), then the
\* branch of line 129.
get_info_clean_data(s) ==
    /\ pc[s] = "clean_data"
    /\ LET r == clean_data(df[s], column_ids[s]) IN
          /\ df' = [df EXCEPT ![s] = r.dataframe]
          /\ column_ids' = [column_ids EXCEPT ![s] = r.columns]
          /\ df_cleaned' = [df_cleaned EXCEPT ![s] = r.ret]
          /\ exc' = [exc EXCEPT ![s] = IF r.raised THEN "KeyError" ELSE @]
          /\ pc' = [pc EXCEPT ![s] =
                       IF r.raised THEN "crashed"
                       ELSE IF is_str(ticker_string[s]) THEN "get_ids" ELSE "filter"]
    /\ trace' = [trace EXCEPT ![s] = Append(@, "projection")]
    /\ UNCHANGED <<live, api_key, ticker_string, headers, id_list, info_df, info_html,
                   out, stdout, inputs, wire, cd_vars>>

\* Lines 88-101 of get_ids: a new Session carrying the key in its headers.
get_ids_session(s) ==
    /\ pc[s] = "get_ids"
    /\ headers' = [headers EXCEPT ![NewSession(s)] = api_key[s]]
    /\ pc' = [pc EXCEPT ![s] = "get_ids_request"]
    /\ UNCHANGED <<live, api_key, ticker_string, column_ids, df, df_cleaned, id_list,
                   info_df, info_html, out, stdout, exc, inputs, wire, trace, cd_vars>>

\* Lines 103-115 of get_ids: the request for the symbols with their spaces
\* removed, the handler, the loop over id_map['data'].  A transport error is
\* caught and printed to the server's standard output, and line 111 then
\* reads id_map, which was never bound: UnboundLocalError.
get_ids_request(s) ==
    /\ pc[s] = "get_ids_request"
    /\ LET key    == headers[NewSession(s)]
           symbol == strip_spaces(ticker_string[s].chars)
       IN
       \/ \E e \in TransportErrors :
             /\ wire' = [wire EXCEPT ![s] =
                            Append(@, Request("map", key, symbol, e, <<>>, <<>>))]
             /\ stdout' = Append(stdout, e)
             /\ exc' = [exc EXCEPT ![s] = "UnboundLocalError"]
             /\ pc' = [pc EXCEPT ![s] = "crashed"]
             /\ id_list' = id_list
       \/ /\ ~ValidKey(key)
          /\ wire' = [wire EXCEPT ![s] =
                         Append(@, Request("map", key, symbol, "error_payload", <<>>, <<>>))]
          /\ exc' = [exc EXCEPT ![s] = "KeyError"]
          /\ pc' = [pc EXCEPT ![s] = "crashed"]
          /\ UNCHANGED <<id_list, stdout>>
       \/ /\ ValidKey(key)
          /\ wire' = [wire EXCEPT ![s] =
                         Append(@, Request("map", key, symbol, "ok", <<>>,
                                           MapResponse(symbol)))]
          /\ id_list' = [id_list EXCEPT ![s] = cmc_ids(MapResponse(symbol))]
          /\ pc' = [pc EXCEPT ![s] = "filter"]
          /\ UNCHANGED <<exc, stdout>>
    /\ trace' = [trace EXCEPT ![s] = Append(@, "map_request")]
    /\ UNCHANGED <<live, api_key, ticker_string, column_ids, headers, df, df_cleaned,
                   info_df, info_html, out, inputs, cd_vars>>

\* Lines 131 / 133 of get_info: the rows with a resolved id, or the first n.
get_info_filter(s) ==
    /\ pc[s] = "filter"
    /\ LET r == filter_step(df_cleaned[s], ticker_string[s], id_list[s]) IN
          /\ df_cleaned' = [df_cleaned EXCEPT ![s] = r.frame]
          /\ info_df' = [info_df EXCEPT ![s] = r.ret]
    /\ trace' = [trace EXCEPT ![s] = Append(@, "filter")]
    /\ pc' = [pc EXCEPT ![s] = "to_html"]
    /\ UNCHANGED <<live, api_key, ticker_string, column_ids, headers, df, id_list,
                   info_html, out, stdout, exc, inputs, wire, cd_vars>>

\* Lines 134-135 of get_info: the table markup, and the return.
get_info_to_html(s) ==
    /\ pc[s] = "to_html"
    /\ info_html' = [info_html EXCEPT ![s] = to_html(info_df[s])]
    /\ pc' = [pc EXCEPT ![s] = "emit"]
    /\ UNCHANGED <<live, api_key, ticker_string, column_ids, headers, df, df_cleaned,
                   id_list, info_df, out, stdout, exc, inputs, wire, trace, cd_vars>>

\* Lines 163-169 of task_func: the table and the two files.
task_func_emit(s) ==
    /\ pc[s] = "emit"
    /\ out' = [out EXCEPT ![s] =
                  @ \o emitted(unfiltered(df[s], df_cleaned[s]), info_df[s], info_html[s])]
    /\ trace' = [trace EXCEPT ![s] = @ \o <<"table", "file_filtered", "file_unfiltered">>]
    /\ pc' = [pc EXCEPT ![s] = "done"]
    /\ UNCHANGED <<live, api_key, ticker_string, column_ids, headers, df, df_cleaned,
                   id_list, info_df, info_html, stdout, exc, inputs, wire, cd_vars>>

Next ==
    \/ \E s \in live : task_func_api_key(s)
    \/ \E s \in live : task_func_ticker_string(s)
    \/ \E s \in live : task_func_column_ids(s)
    \/ \E s \in live : get_data_session(s)
    \/ \E s \in live : get_data_request(s)
    \/ \E s \in live : get_info_clean_data(s)
    \/ \E s \in live : get_ids_session(s)
    \/ \E s \in live : get_ids_request(s)
    \/ \E s \in live : get_info_filter(s)
    \/ \E s \in live : get_info_to_html(s)
    \/ \E s \in live : task_func_emit(s)

Spec == Init /\ [][Next]_vars

SpecTwo == InitTwo /\ [][Next]_vars

\* ------------------------------------------- clean_data, called directly

\* clean_data and the filter step as functions of their arguments: a caller
\* holds a dataframe and a columns list and passes the same two objects to
\* clean_data again and again.
InitDirect ==
    /\ SessionInit({})
    /\ \E data \in AllSnapshots, c \in AllSelections :
          /\ cd_df = json_normalize(data)
          /\ cd_df0 = json_normalize(data)
          /\ cd_columns = c
          /\ cd_columns0 = c
    /\ cd_ret = EmptyFrame
    /\ cd_info = EmptyFrame
    /\ cd_calls = 0
    /\ cd_filtered = FALSE

call_clean_data ==
    /\ cd_calls < MaxCalls
    /\ LET r == clean_data(cd_df, cd_columns) IN
          /\ ~r.raised
          /\ cd_df' = r.dataframe
          /\ cd_columns' = r.columns
          /\ cd_ret' = r.ret
    /\ cd_calls' = cd_calls + 1
    /\ UNCHANGED <<live, session_vars, cd_info, cd_filtered, cd_df0, cd_columns0>>

\* Lines 129-133 on the frame clean_data returned for the caller's own
\* selection (one 'id' column), with the ids the provider maps the query to.
call_filter_step ==
    /\ cd_calls = 1
    /\ \E q \in AllQueries :
          LET r == filter_step(cd_ret, parse_query(q),
                               cmc_ids(MapResponse(strip_spaces(q))))
          IN  /\ cd_ret' = r.frame
              /\ cd_info' = r.ret
    /\ cd_filtered' = TRUE
    /\ UNCHANGED <<live, session_vars, cd_df, cd_columns, cd_calls, cd_df0, cd_columns0>>

NextDirect ==
    \/ call_clean_data
    \/ call_filter_step

\* Both, for what a claim says of get_info's run and of repeated calls.
SpecCalls == (Init \/ InitDirect) /\ [][Next \/ NextDirect]_vars

\* ----------------------------------------------------------------- claims

Count(seq, x) == Cardinality({ i \in DOMAIN seq : seq[i] = x })

Occurs(seq, x) == \E i \in DOMAIN seq : seq[i] = x

Pos(seq, x) == CHOOSE i \in DOMAIN seq : seq[i] = x

Min(a, b) == IF a < b THEN a ELSE b

RawPos(c) == CHOOSE k \in DOMAIN RawCols : RawCols[k] = c

Filtered(s) == pc[s] \in {"to_html", "emit", "done"}

Projected(s) == pc[s] \in {"get_ids", "get_ids_request", "filter", "to_html", "emit", "done"}

\* The snapshot the listings response of session s carried.
Listing(s) == wire[s][1].listing

\* The identifiers the symbol-map response of session s carried.
ResolvedIds(s) == { wire[s][2].entries[i].id : i \in DOMAIN wire[s][2].entries }

Files(s, name) == SelectSeq(out[s], LAMBDA o : o.kind = "file" /\ o.name = name)

TransportFailed(s) == \E i \in DOMAIN wire[s] : wire[s][i].kind \in TransportErrors

ErrorPayload(s) == \E i \in DOMAIN wire[s] : wire[s][i].kind = "error_payload"

TablesAndFiles(s) == SelectSeq(out[s], LAMBDA o : o.kind \in {"html", "file"})

\* C1: for a ticker query the filtered result is exactly the rows of the
\* relabeled set whose id is one of ALL the identifiers the symbol-map
\* response carried, in the snapshot's order, under the relabeled columns;
\* no exception is raised, also when no row matches.
C1_TickerFilter ==
    \A s \in live :
        (Filtered(s) /\ ~isdigit(inputs[s].query)) =>
            /\ exc[s] = "none"
            /\ info_df[s].cols = df_cleaned[s].cols
            /\ info_df[s].rows =
                   SelectSeq(df_cleaned[s].rows, LAMBDA row : row[1] \in ResolvedIds(s))
            /\ \A r \in DOMAIN df_cleaned[s].rows :
                   df_cleaned[s].rows[r][1] = Listing(s)[r]

\* C1 witness: ticker X names two listed assets and both rows are returned.
C1_Witness ==
    /\ pc["s1"] = "done"
    /\ inputs["s1"].query = <<"X">>
    /\ ResolvedIds("s1") = {1, 2}
    /\ Len(info_df["s1"].rows) = 2

\* C2: for a row-count query N on a snapshot of M rows the filtered result
\* is the first min(N, M) rows of the relabeled set, in order; no exception
\* is raised when N exceeds M.
C2_RowCount ==
    \A s \in live :
        (Filtered(s) /\ isdigit(inputs[s].query)) =>
            LET n == int(inputs[s].query)
                m == Len(Listing(s))
            IN  /\ exc[s] = "none"
                /\ Len(df_cleaned[s].rows) = m
                /\ Len(info_df[s].rows) = Min(n, m)
                /\ info_df[s].rows = SubSeq(df_cleaned[s].rows, 1, Min(n, m))
                /\ info_df[s].cols = df_cleaned[s].cols

\* C2 witness: a row count above the snapshot's size returns every row.
C2_Witness ==
    /\ pc["s1"] = "done"
    /\ inputs["s1"].query = <<"5", "0", "0">>
    /\ Len(Listing("s1")) = 2
    /\ Len(info_df["s1"].rows) = 2

\* C3: clean_data returns the snapshot's rows in the same order under
\* exactly the columns id followed by the selected fields, each label
\* rewritten per relabeling_map, each cell the snapshot's value of that
\* field.
C3_Projection ==
    \A s \in live :
        Projected(s) =>
            LET sel  == inputs[s].columns
                data == Listing(s)
            IN  /\ Len(df_cleaned[s].cols) = Len(sel) + 1
                /\ df_cleaned[s].cols[1] = "id"
                /\ \A j \in DOMAIN sel :
                       df_cleaned[s].cols[j + 1] = relabeling_map(sel[j])
                /\ Len(df_cleaned[s].rows) = Len(data)
                /\ \A r \in DOMAIN data :
                       /\ Len(df_cleaned[s].rows[r]) = Len(sel) + 1
                       /\ df_cleaned[s].rows[r][1] = data[r]
                       /\ \A j \in DOMAIN sel :
                              df_cleaned[s].rows[r][j + 1] = FieldValue(data[r], RawPos(sel[j]))

\* C3 witness: two selected fields give three columns, one row per record.
C3_Witness ==
    /\ Projected("s1")
    /\ inputs["s1"].columns = <<"quote.USD.price", "quote.USD.market_cap">>
    /\ df_cleaned["s1"].cols = <<"id", "price_USD", "market_cap">>
    /\ Len(df_cleaned["s1"].rows) = Len(Listing("s1"))
    /\ Len(Listing("s1")) = MaxRows

C5_TransportErrorPropagates ==
    \A s \in live :
        TransportFailed(s) =>
            /\ exc[s] \in TransportErrors
            /\ \E i \in DOMAIN out[s] :
                   out[s][i].kind = "text" /\ out[s][i].name \in TransportErrors
            /\ wire[s][Len(wire[s])].kind \in TransportErrors
            /\ TablesAndFiles(s) = <<>>

\* C6 (as claimed): a provider error payload ends the run with exactly one
\* user-facing error message, and with no table and no file.
C6_AuthErrorSurfaced ==
    \A s \in live :
        ErrorPayload(s) =>
            /\ pc[s] = "crashed"
            /\ TablesAndFiles(s) = <<>>
            /\ Len(SelectSeq(out[s], LAMBDA o : o.kind = "text")) = 1

\* What the claim calls an invalid query: a number outside 1..100, or a
\* ticker list with no symbol left after normalization.
InvalidQuery(q) ==
    IF isdigit(q) THEN int(q) \notin 1..100
    ELSE \A i \in DOMAIN Split(strip_spaces(q)) : Split(strip_spaces(q))[i] = <<>>

\* C7 (as claimed): a session whose query is invalid has sent no request.
C7_ValidationBeforeNetwork ==
    \A s \in live :
        (pc[s] \notin {"start", "input_ticker"} /\ InvalidQuery(inputs[s].query)) =>
            wire[s] = <<>>

\* C8: the listings request is the first step and happens once; projection
\* is the second; the symbol-map request happens at most once, only for a
\* ticker query, and by the time of filtering exactly for a ticker query;
\* the table and the files come after filtering.
C8_StepOrder ==
    \A s \in live :
        LET t == trace[s]
            w == wire[s]
        IN  /\ Count(t, "listings_request") <= 1
            /\ t # <<>> => t[1] = "listings_request"
            /\ Len(t) >= 2 => t[2] = "projection"
            /\ Count(t, "projection") <= 1
            /\ Count(t, "map_request") <= 1
            /\ Occurs(t, "map_request") => ~isdigit(inputs[s].query)
            /\ Occurs(t, "filter") =>
                   /\ Count(t, "listings_request") = 1
                   /\ Occurs(t, "map_request") <=> ~isdigit(inputs[s].query)
                   /\ Occurs(t, "map_request") => Pos(t, "map_request") < Pos(t, "filter")
            /\ \A e \in {"table", "file_filtered", "file_unfiltered"} :
                   Occurs(t, e) => Occurs(t, "filter") /\ Pos(t, "filter") < Pos(t, e)
            /\ TablesAndFiles(s) # <<>> => Occurs(t, "table")
            /\ Len(w) = Count(t, "listings_request") + Count(t, "map_request")
            /\ \A i \in DOMAIN w :
                   w[i].endpoint = (IF i = 1 THEN "listings" ELSE "map")

\* C8 witness: a finished ticker query took all seven steps in order.
C8_Witness ==
    /\ pc["s1"] = "done"
    /\ trace["s1"] = <<"listings_request", "projection", "map_request", "filter",
                       "table", "file_filtered", "file_unfiltered">>

\* The page of a session run on its own: a function of what its user
\* entered and of the responses to its own requests.
PageAlone(inp, w) ==
    LET intro == <<put_markdown("# CryptoTableMaker"), put_markdown("A simple web app")>>
    IN  IF w = <<>> THEN intro
        ELSE IF w[1].kind \in TransportErrors THEN Append(intro, put_text(w[1].kind))
        ELSE IF w[1].kind # "ok" THEN intro
        ELSE LET fetched == json_normalize(w[1].listing)
                 cleaned == clean_data(fetched, inp.columns).ret
                 t       == parse_query(inp.query)
                 ids     == IF Len(w) >= 2 THEN cmc_ids(w[2].entries) ELSE <<>>
                 info    == filter_step(cleaned, t, ids).ret
             IN  IF is_str(t) /\ (Len(w) < 2 \/ w[2].kind # "ok") THEN intro
                 ELSE intro \o emitted(fetched, info, to_html(info))

\* C9: with two sessions interleaving, every request of a session carries
\* that session's own key and symbols, is answered for them, and the page of
\* an ended session is the page of that session run alone.
C9_SessionIsolation ==
    \A s \in live :
        /\ \A i \in DOMAIN wire[s] :
               /\ wire[s][i].key = inputs[s].api_key
               /\ wire[s][i].endpoint = "map" =>
                      /\ wire[s][i].symbol = strip_spaces(inputs[s].query)
                      /\ wire[s][i].kind = "ok" =>
                             wire[s][i].entries = MapResponse(wire[s][i].symbol)
               /\ wire[s][i].kind = "error_payload" <=>
                      (~ValidKey(inputs[s].api_key) /\ wire[s][i].kind \notin TransportErrors)
        /\ pc[s] \in {"done", "crashed"} => out[s] = PageAlone(inputs[s], wire[s])
        /\ pc[s] \notin {"start", "input_ticker"} =>
               ticker_string[s] = parse_query(inputs[s].query)
        /\ pc[s] \notin {"start"} => api_key[s] = inputs[s].api_key

\* C9 witness: two finished sessions with different keys, queries and
\* snapshots, each with its own page.
C9_Witness ==
    /\ pc["s1"] = "done" /\ pc["s2"] = "done"
    /\ inputs["s1"].api_key = "keyA" /\ inputs["s2"].api_key = "keyB"
    /\ inputs["s1"].query = <<"2">> /\ inputs["s2"].query = <<"X", ",", " ", "Y">>
    /\ Listing("s1") # Listing("s2")
    /\ out["s1"] # out["s2"]

Ids(n) == [i \in 1..n |-> "id"]

\* C10: clean_data and the filter step leave the frame they are given as it
\* was (get_info's unfiltered frame is the fetched one), and each call of
\* clean_data puts one 'id' at index 0 of the caller's columns list.
C10_FrameEffect ==
    /\ \A s \in live :
          /\ Projected(s) =>
                /\ df[s] = json_normalize(Listing(s))
                /\ unfiltered(df[s], df_cleaned[s]) = json_normalize(Listing(s))
                /\ column_ids[s] = <<"id">> \o inputs[s].columns
                /\ df_cleaned[s] = rename(select_columns(df[s], column_ids[s]))
          /\ (pc[s] \in {"get_data", "get_data_request", "clean_data"}) =>
                column_ids[s] = inputs[s].columns
    /\ cd_df = cd_df0
    /\ cd_columns = Ids(cd_calls) \o cd_columns0
    /\ cd_calls >= 1 => cd_ret = rename(select_columns(cd_df0, cd_columns))

\* C10 witness: after a second call with the same list it starts with two
\* 'id' entries, and the filter step has run on the first call's frame.
C10_Witness ==
    /\ cd_calls = 2
    /\ cd_filtered
    /\ Len(cd_columns) = Len(cd_columns0) + 2
    /\ cd_columns[1] = "id" /\ cd_columns[2] = "id"
    /\ cd_columns0 # <<>>

====
